------------------------------ MODULE Spec2Model ------------------------------
(***************************************************************************)
(* Model of lambda_function.py: the TMDB ingestion job.                    *)
(*                                                                         *)
(*   _make_tmdb_request  one authenticated GET, decoded as JSON            *)
(*   fetch_all_pages     the pagination loop with its 500-page clamp       *)
(*   fetch_genres        the unpaginated genre list                        *)
(*   movie_to_row        the 10-column row of a movie                      *)
(*   write_csv_to_s3     header + rows put at one key of the bucket        *)
(*   lambda_handler      fetch, fetch, fetch, transform, put, put, put     *)
(*                                                                         *)
(* Two specifications: SpecPager is one call of fetch_all_pages with any   *)
(* max_pages against a stub endpoint; Spec is one invocation of            *)
(* lambda_handler.  Python values that may be None are sequences of        *)
(* length at most one (<<>> is None); a JSON object is a function from     *)
(* its keys, so that dict.get(key, default) is Get below.                  *)
(***************************************************************************)
EXTENDS Integers, Sequences, FiniteSets, TLC

VARIABLES
    TMDB_API_TOKEN,   \* os.getenv("TMDB_API_TOKEN"): <<>> (unset) or <<string>>
    upstream,         \* the upstream API: endpoint path -> its behaviour
    pc,               \* where the invocation stands
    max_pages,        \* fetch_all_pages: the argument, <<>> is None
    page,             \* fetch_all_pages: the local page
    all_results,      \* fetch_all_pages: the local all_results
    top_rated_movies, \* lambda_handler: local
    upcoming_movies,  \* lambda_handler: local
    genres,           \* lambda_handler: local
    store,            \* the bucket: key -> <<>> (no object) or <<body>>
    store0,           \* the bucket as the invocation found it
    requests,         \* every GET sent upstream, in order: <<endpoint, params>>
    puts,             \* every put_object attempted, in order: <<key, succeeded>>
    error,            \* the exception that ended the invocation, "" if none
    response          \* what lambda_handler returned, <<>> if nothing

vars == <<TMDB_API_TOKEN, upstream, pc, max_pages, page, all_results,
          top_rated_movies, upcoming_movies, genres, store, store0,
          requests, puts, error, response>>

-----------------------------------------------------------------------------
(* Bounds of the model.                                                    *)

\* endpoints report total_pages in -1 .. MaxSmall, callers pass max_pages there
MaxSmall == 2
\* endpoints report total_pages up to TMDB_MAX_PAGES + MaxOver
MaxOver == 2
\* a page holds at most MaxItems results
MaxItems == 2
\* a request may fail while page <= MaxFailPage
MaxFailPage == 2
\* the genre list holds at most MaxGenres genres
MaxGenres == 3

-----------------------------------------------------------------------------
(* Constants of the program.                                               *)

TMDB_MAX_PAGES == 500

TOP_RATED_KEY == "tmdb/raw/top_rated/top_rated_movies.csv"
UPCOMING_KEY == "tmdb/raw/upcoming/upcoming_movies.csv"
GENRES_KEY == "tmdb/raw/genres/movie_genres.csv"
S3_BUCKET == "tmdb-data-071125"

TOP_RATED_PATH == "/movie/top_rated"
UPCOMING_PATH == "/movie/upcoming"
GENRES_PATH == "/genre/movie/list"

Keys == {TOP_RATED_KEY, UPCOMING_KEY, GENRES_KEY}

-----------------------------------------------------------------------------
(* Python helpers.                                                         *)

None == <<>>

\* the empty dict
NoParams == <<>>

\* {"language": "en-US"}
EnUS == [language |-> "en-US"]

Some(v) == <<v>>

\* dict.get(key, default)
Get(d, key, default) == IF key \in DOMAIN d THEN d[key] ELSE default

Min(a, b) == IF a <= b THEN a ELSE b

Max(a, b) == IF a >= b THEN a ELSE b

RECURSIVE FlattenBetween(_, _, _)
\* ss[lo] \o ... \o ss[hi], by halves
FlattenBetween(ss, lo, hi) ==
    IF lo > hi THEN <<>>
    ELSE IF lo = hi THEN ss[lo]
    ELSE LET mid == (lo + hi) \div 2
         IN  FlattenBetween(ss, lo, mid) \o FlattenBetween(ss, mid + 1, hi)

Flatten(ss) == FlattenBetween(ss, 1, Len(ss))

-----------------------------------------------------------------------------
(* The upstream API.  A paginated endpoint is described by what it reports *)
(* as total_pages on page 1 (first) and on every later page (later), <<>>  *)
(* when the key is absent, and by shift: page p holds                      *)
(* (p + shift) % (MaxItems + 2) results, the slot MaxItems + 1 standing    *)
(* for a response that has no "results" key.  Results are references to    *)
(* the movie objects of the response: <<endpoint, page, index>>.           *)

SmallTotals == (0 - 1) .. MaxSmall

BigTotals == TMDB_MAX_PAGES .. (TMDB_MAX_PAGES + MaxOver)

Totals == {None} \cup {Some(t) : t \in SmallTotals \cup BigTotals}

IsSmall(t) == t = None \/ t[1] \in SmallTotals

\* the total changes at most once, after page 1, and not from one total of
\* TMDB_MAX_PAGES or more to another
Endpoints ==
    {e \in [first : Totals, later : Totals, shift : 0 .. (MaxItems + 1)] :
        e.first = e.later \/ IsSmall(e.first) \/ IsSmall(e.later)}

Reported(e, p) == IF p = 1 THEN e.first ELSE e.later

Slot(e, p) == (p + e.shift) % (MaxItems + 2)

PageResults(path, e, p) == [i \in 1 .. Slot(e, p) |-> <<path, p, i>>]

\* the JSON object a successful GET of page p decodes to
Respond(path, e, p) ==
    LET tp == Reported(e, p)
        withTotal == IF tp = None THEN <<>> ELSE <<"total_pages">>
        withResults == IF Slot(e, p) = MaxItems + 1 THEN <<>> ELSE <<"results">>
        keys == {withTotal[i] : i \in DOMAIN withTotal}
                    \cup {withResults[i] : i \in DOMAIN withResults}
    IN  [k \in keys |-> IF k = "total_pages" THEN tp[1]
                        ELSE PageResults(path, e, p)]

\* what urlopen can come back with: it raises, or a status and a body that
\* parses or not
Outcomes(p) ==
    IF p <= MaxFailPage
    THEN [raised : BOOLEAN, status_code : {199, 200, 299, 300}, json : BOOLEAN]
    ELSE [raised : {FALSE}, status_code : {200}, json : {TRUE}]

-----------------------------------------------------------------------------
(* _make_tmdb_request                                                      *)

TokenError == "RuntimeError: TMDB_API_TOKEN environment variable is required"

\* faulty variant: `if TMDB_API_TOKEN is None`
TokenMissing_NoneOnly(token) == token = None

\* `if not TMDB_API_TOKEN`: None and the empty string are both falsy
TokenMissing(token) == token = None \/ token[1] = ""

StatusOk(status_code) == ~(status_code < 200 \/ status_code >= 300)

\* the exception _make_tmdb_request raises on outcome o, "" when it returns
RequestError(o) ==
    IF o.raised THEN "URLError"
    ELSE IF ~StatusOk(o.status_code) THEN "RuntimeError: TMDB API error"
    ELSE IF ~o.json THEN "JSONDecodeError"
    ELSE ""

-----------------------------------------------------------------------------
(* fetch_all_pages                                                         *)

\* Faulty variants of the loop, which the properties below must tell from it:
\* the clamp forgotten, a break that is one page late, max_pages hiding the
\* total, results put in front.
CapTotalPages_NoClamp(total_pages) == total_pages

LoopBreaks_TotalLate(pg, mp, total_pages) ==
    \/ (mp # None /\ pg >= mp[1])
    \/ pg > total_pages

LoopBreaks_MaxLate(pg, mp, total_pages) ==
    \/ (mp # None /\ pg > mp[1])
    \/ pg >= total_pages

LoopBreaks_MaxFirst(pg, mp, total_pages) ==
    IF mp # None THEN pg >= mp[1] ELSE pg >= total_pages

Extend_InFront(acc, results) == results \o acc

\* lines 96-98: the clamp
CapTotalPages(total_pages) ==
    IF total_pages > TMDB_MAX_PAGES THEN TMDB_MAX_PAGES ELSE total_pages

\* lines 106-109: the two breaks
LoopBreaks(pg, mp, total_pages) ==
    \/ (mp # None /\ pg >= mp[1])
    \/ pg >= total_pages

\* line 104
Extend(acc, results) == acc \o results

\* The exception unwinds the invocation: its locals are gone.
Raise(e) ==
    /\ pc' = "failed"
    /\ error' = e
    /\ page' = 1
    /\ all_results' = <<>>
    /\ top_rated_movies' = <<>>
    /\ upcoming_movies' = <<>>
    /\ genres' = <<>>
    /\ UNCHANGED <<TMDB_API_TOKEN, upstream, max_pages, store0, response>>

\* lines 88-89: params = dict(extra_params); params["page"] = page
WithPage(extra_params, pg) ==
    [k \in DOMAIN extra_params \cup {"page"} |->
        IF k = "page" THEN pg ELSE extra_params[k]]

\* line 114 of the call fetch_all_pages(endpoint, max_pages = max_pages)
PagerReturn(list) ==
    /\ pc' = "returned"
    /\ all_results' = list
    /\ UNCHANGED <<TMDB_API_TOKEN, upstream, max_pages, page, top_rated_movies,
                   upcoming_movies, genres, store0, error, response>>

\* faulty variant: the top-rated table is written as soon as it is fetched
TopRatedReturn_WriteAtOnce(list) ==
    /\ pc' = "write_top_rated"
    /\ top_rated_movies' = list
    /\ page' = 1
    /\ all_results' = <<>>
    /\ UNCHANGED <<TMDB_API_TOKEN, upstream, max_pages, upcoming_movies, genres,
                   store0, error, response>>

\* line 191
TopRatedReturn(list) ==
    /\ pc' = "fetch_upcoming"
    /\ top_rated_movies' = list
    /\ page' = 1
    /\ all_results' = <<>>
    /\ UNCHANGED <<TMDB_API_TOKEN, upstream, max_pages, upcoming_movies, genres,
                   store0, error, response>>

\* line 192
UpcomingReturn(list) ==
    /\ pc' = "fetch_genres"
    /\ upcoming_movies' = list
    /\ page' = 1
    /\ all_results' = <<>>
    /\ UNCHANGED <<TMDB_API_TOKEN, upstream, max_pages, top_rated_movies, genres,
                   store0, error, response>>

\* `return all_results`: the caller standing at `at` takes the list
ReturnTo(at, list) ==
    CASE at = "fetch_all_pages" -> PagerReturn(list)
      [] at = "fetch_top_rated" -> TopRatedReturn(list)
      [] at = "fetch_upcoming" -> UpcomingReturn(list)

\* One iteration of the loop of fetch_all_pages(path, extra_params, mp),
\* inside the caller standing at `at`.
FetchPage(at, path, extra_params, mp) ==
    /\ pc = at
    /\ IF TokenMissing(TMDB_API_TOKEN)
       THEN /\ Raise(TokenError)
            /\ UNCHANGED <<requests, store, puts>>
       ELSE \E o \in Outcomes(page) :
            /\ requests' = Append(requests, <<path, WithPage(extra_params, page)>>)
            /\ UNCHANGED <<store, puts>>
            /\ IF RequestError(o) # ""
               THEN Raise(RequestError(o))
               ELSE LET data == Respond(path, upstream[path], page)
                        results == Get(data, "results", <<>>)
                        total_pages == CapTotalPages(Get(data, "total_pages", 1))
                        acc == Extend(all_results, results)
                    IN  IF LoopBreaks(page, mp, total_pages)
                        THEN ReturnTo(at, acc)
                        ELSE /\ page' = page + 1
                             /\ all_results' = acc
                             /\ UNCHANGED <<TMDB_API_TOKEN, upstream, pc,
                                            max_pages, top_rated_movies,
                                            upcoming_movies, genres, store0,
                                            error, response>>

-----------------------------------------------------------------------------
(* SpecPager: one call fetch_all_pages(TOP_RATED_PATH, max_pages)          *)

MaxPagesArgs ==
    {None} \cup {Some(m) : m \in SmallTotals \cup {TMDB_MAX_PAGES + 1}}

Tokens == {None, Some(""), Some("token")}

PagerFetchPage ==
    FetchPage("fetch_all_pages", TOP_RATED_PATH, NoParams, max_pages)

InitPager ==
    /\ TMDB_API_TOKEN \in Tokens
    /\ upstream \in [{TOP_RATED_PATH} -> Endpoints]
    /\ max_pages \in MaxPagesArgs
    /\ pc = "fetch_all_pages"
    /\ page = 1
    /\ all_results = <<>>
    /\ top_rated_movies = <<>>
    /\ upcoming_movies = <<>>
    /\ genres = <<>>
    /\ store = [k \in Keys |-> None]
    /\ store0 = store
    /\ requests = <<>>
    /\ puts = <<>>
    /\ error = ""
    /\ response = None

NextPager == PagerFetchPage

SpecPager == InitPager /\ [][NextPager]_vars

FairSpecPager == SpecPager /\ WF_vars(NextPager)

-----------------------------------------------------------------------------
(* What a run of fetch_all_pages did, read off the log of requests.        *)

PagerEndpoint == upstream[TOP_RATED_PATH]

NumRequests == Len(requests)

PageOf(i) == requests[i][2].page

\* the requests went to pages 1, 2, ..., NumRequests in that order
ConsecutivePages == \A i \in 1 .. NumRequests : PageOf(i) = i

\* the results of page p as the endpoint sent them ([] when the key is absent)
ResultsOfPage(p) ==
    Get(Respond(TOP_RATED_PATH, PagerEndpoint, p), "results", <<>>)

\* the total_pages of page p as the endpoint sent it (1 when the key is absent)
TotalOfPage(p) ==
    Get(Respond(TOP_RATED_PATH, PagerEndpoint, p), "total_pages", 1)

RECURSIVE SumCountsBetween(_, _)
\* the number of results on pages lo..hi, by halves
SumCountsBetween(lo, hi) ==
    IF lo > hi THEN 0
    ELSE IF lo = hi THEN Len(ResultsOfPage(lo))
    ELSE LET mid == (lo + hi) \div 2
         IN  SumCountsBetween(lo, mid) + SumCountsBetween(mid + 1, hi)

SumCounts(k) == SumCountsBetween(1, k)

\* the endpoint reports the integer T on every response
ReportsAlways(T) ==
    /\ PagerEndpoint.first = Some(T)
    /\ PagerEndpoint.later = Some(T)

ConstantTotals == SmallTotals \cup BigTotals

PagerReturned == pc = "returned"

\* C1 as stated: with no max_pages and the same total_pages = T on every
\* response, a finished call made exactly min(T, 500) requests, on pages
\* 1..min(T, 500), and returned as many items as the pages held.
C1_AsStated ==
    \A T \in ConstantTotals :
        (PagerReturned /\ max_pages = None /\ ReportsAlways(T)) =>
            /\ NumRequests = Min(T, TMDB_MAX_PAGES)
            /\ ConsecutivePages
            /\ Len(all_results) = SumCounts(NumRequests)

\* C1 amended: the number of requests is max(1, min(T, 500)): page 1 is
\* always fetched, also when T is 0 or negative.
C1_RequestsMaxOneMinTotalCap ==
    \A T \in ConstantTotals :
        (PagerReturned /\ max_pages = None /\ ReportsAlways(T)) =>
            /\ NumRequests = Max(1, Min(T, TMDB_MAX_PAGES))
            /\ ConsecutivePages
            /\ Len(all_results) = SumCounts(NumRequests)

C1_Witness ==
    /\ PagerReturned
    /\ max_pages = None
    /\ ReportsAlways(TMDB_MAX_PAGES + 1)
    /\ NumRequests = TMDB_MAX_PAGES
    /\ Len(all_results) > MaxItems

\* C2 as stated: with max_pages = M, the same total_pages = T on every
\* response and M < T, a finished call made exactly M requests.
C2_AsStated ==
    \A T \in ConstantTotals :
        (PagerReturned /\ max_pages # None /\ ReportsAlways(T)) =>
            (max_pages[1] < T => NumRequests = max_pages[1])

\* C2 amended: with M < T the call makes max(1, min(M, 500)) requests: one
\* when M is 0 or negative, 500 when M is above the clamp.
C2_RequestsMaxOneMinCapArg ==
    \A T \in ConstantTotals :
        (PagerReturned /\ max_pages # None /\ ReportsAlways(T)) =>
            (max_pages[1] < T =>
                NumRequests = Max(1, Min(max_pages[1], TMDB_MAX_PAGES)))

C2_Witness ==
    /\ PagerReturned
    /\ max_pages = Some(TMDB_MAX_PAGES + 1)
    /\ ReportsAlways(TMDB_MAX_PAGES + 2)
    /\ NumRequests = TMDB_MAX_PAGES

\* C3: every page requested lies in 1..500, whatever max_pages is and
\* whatever totals the endpoint reports.
C3_PagesWithinClamp ==
    \A i \in 1 .. NumRequests : 1 <= PageOf(i) /\ PageOf(i) <= TMDB_MAX_PAGES

C3_Witness ==
    /\ NumRequests = TMDB_MAX_PAGES
    /\ PageOf(NumRequests) = TMDB_MAX_PAGES
    /\ max_pages = Some(TMDB_MAX_PAGES + 1)
    /\ PagerEndpoint.later = Some(TMDB_MAX_PAGES + 2)
    /\ PagerReturned

FirstTotalAtMostOne ==
    PagerEndpoint.first = None \/ PagerEndpoint.first[1] <= 1

\* C4: when the first response reports total_pages <= 1 (or none), the call
\* makes one request, whatever max_pages is, and returns that page's results.
C4_OneFetchWhenTotalAtMostOne ==
    FirstTotalAtMostOne =>
        /\ NumRequests <= 1
        /\ (NumRequests = 1 /\ pc # "failed") => PagerReturned
        /\ PagerReturned => (NumRequests = 1 /\ all_results = ResultsOfPage(1))

C4_Witness ==
    /\ PagerReturned
    /\ PagerEndpoint.first = Some(0)
    /\ PagerEndpoint.later = Some(TMDB_MAX_PAGES)
    /\ max_pages = Some(MaxSmall)
    /\ Len(all_results) = MaxItems

\* C5: the list returned is the results of pages 1, 2, ... of the requests
\* made, one page after the other, each page's items in the order received.
C5_ResultIsConcatenationInPageOrder ==
    PagerReturned =>
        /\ ConsecutivePages
        /\ all_results = Flatten([p \in 1 .. NumRequests |-> ResultsOfPage(p)])

C5_Witness ==
    /\ PagerReturned
    /\ NumRequests >= 2
    /\ Len(ResultsOfPage(1)) > 0
    /\ Len(ResultsOfPage(2)) = MaxItems
    /\ Len(all_results) > MaxItems

\* the loop stops after page p: the two breaks, on what page p reported
StopsAt(p) ==
    \/ (max_pages # None /\ p >= max_pages[1])
    \/ p >= Min(TotalOfPage(p), TMDB_MAX_PAGES)

C10_Safety ==
    /\ NumRequests <= TMDB_MAX_PAGES
    /\ ConsecutivePages
    /\ PagerReturned =>
          /\ NumRequests >= 1
          /\ StopsAt(NumRequests)
          /\ \A p \in 1 .. (NumRequests - 1) : ~StopsAt(p)
    /\ (pc = "fetch_all_pages" /\ NumRequests >= 1) =>
          (page = NumRequests + 1 /\ ~StopsAt(NumRequests))

\* C10: the call ends, after at most 500 requests, on pages 1, 2, ..., k,
\* where k is the first page at which one of the two breaks applies.
C10_TerminatesAtFirstStop ==
    /\ []C10_Safety
    /\ <>(pc \in {"returned", "failed"})

C10_Witness ==
    /\ PagerReturned
    /\ PagerEndpoint.first = Some(MaxSmall)
    /\ PagerEndpoint.later = Some(TMDB_MAX_PAGES + 1)
    /\ max_pages = None
    /\ NumRequests = TMDB_MAX_PAGES

-----------------------------------------------------------------------------
(* The objects upstream.  A Python value is <<type, str(value)>>, a list   *)
(* <<"list", elements>>.  The object a reference <<endpoint, page, index>> *)
(* points to depends on its index: the first of a page is a full movie,    *)
(* the second has a null genre_ids and little else, the others have a      *)
(* genre_ids that is no list.                                              *)

PyInt(n) == <<"int", ToString(n)>>

PyStr(s) == <<"str", s>>

PyBool(b) == <<"bool", IF b THEN "True" ELSE "False">>

PyNone == <<"NoneType", "None">>

PyList(l) == <<"list", l>>

\* str(v)
Str(v) == PyStr(v[2])

MovieId(ref) == ref[2] * (MaxItems + 1) + ref[3]

MovieObject(ref) ==
    IF ref[3] = 1
    THEN [id |-> PyInt(MovieId(ref)), title |-> PyStr("X"),
          release_date |-> PyStr("2020-01-01"), vote_average |-> PyInt(8),
          vote_count |-> PyInt(100), popularity |-> PyInt(7),
          original_language |-> PyStr("en"),
          genre_ids |-> PyList(<<ref[2], ref[3], 3>>),
          adult |-> PyBool(FALSE), video |-> PyBool(TRUE),
          original_title |-> PyStr("X0"), overview |-> PyStr("text")]
    ELSE IF ref[3] = 2
    THEN [id |-> PyInt(MovieId(ref)), genre_ids |-> PyNone]
    ELSE [title |-> PyStr("Y"), genre_ids |-> PyInt(ref[3]),
          adult |-> PyBool(TRUE)]

GenreObject(ref) ==
    IF ref[3] = 1 THEN [id |-> PyInt(ref[3]), name |-> PyStr("Action")]
    ELSE IF ref[3] = 2 THEN [id |-> PyInt(ref[3])]
    ELSE [name |-> PyStr("Comedy")]

\* the genre list: <<>> when the response has no "genres" key, else the count
GenreLists == {None} \cup {Some(n) : n \in 0 .. MaxGenres}

RespondGenres(g) ==
    IF g = None THEN <<>>
    ELSE [genres |-> [i \in 1 .. g[1] |-> <<GENRES_PATH, 1, i>>]]

-----------------------------------------------------------------------------
(* movie_to_row and the genre rows                                         *)

RECURSIVE Join(_)
\* ",".join(str(g) for g in l)
Join(l) ==
    IF l = <<>> THEN ""
    ELSE IF Len(l) = 1 THEN ToString(Head(l))
    ELSE ToString(Head(l)) \o "," \o Join(Tail(l))

Empty == PyStr("")

movie_to_row(movie) ==
    LET genre_ids == Get(movie, "genre_ids", PyList(<<>>))
        genre_ids_str ==
            IF genre_ids[1] = "list" THEN PyStr(Join(genre_ids[2]))
            ELSE IF genre_ids[1] = "NoneType" THEN PyStr("")
            ELSE Str(genre_ids)
    IN  << Get(movie, "id", Empty),
           Get(movie, "title", Empty),
           Get(movie, "release_date", Empty),
           Get(movie, "vote_average", Empty),
           Get(movie, "vote_count", Empty),
           Get(movie, "popularity", Empty),
           Get(movie, "original_language", Empty),
           genre_ids_str,
           Str(Get(movie, "adult", Empty)),
           Str(Get(movie, "video", Empty)) >>

movie_header ==
    << "id", "title", "release_date", "vote_average", "vote_count",
       "popularity", "original_language", "genre_ids", "adult", "video" >>

genres_header == << "id", "name" >>

\* lines 210-211
MovieRows(movies) == [i \in DOMAIN movies |-> movie_to_row(MovieObject(movies[i]))]

\* line 215
GenreRows(gs) ==
    [i \in DOMAIN gs |->
        << Get(GenreObject(gs[i]), "id", Empty),
           Get(GenreObject(gs[i]), "name", Empty) >>]

-----------------------------------------------------------------------------
(* write_csv_to_s3.  The body is the table the CSV text encodes: the       *)
(* header line, then one line per row, each field written as its str().    *)

CsvLine(row) == [i \in DOMAIN row |-> row[i][2]]

CsvBody(header, rows) == <<header>> \o [i \in DOMAIN rows |-> CsvLine(rows[i])]

\* faulty variant: the exception of put_object is swallowed
write_csv_to_s3_Swallowed(at, s3_key, header, rows, Continue) ==
    /\ pc = at
    /\ \E ok \in BOOLEAN :
        /\ puts' = Append(puts, <<s3_key, ok>>)
        /\ IF ok
           THEN store' = [store EXCEPT ![s3_key] = Some(CsvBody(header, rows))]
           ELSE UNCHANGED store
        /\ Continue
    /\ UNCHANGED requests

\* put_object stores the body, or raises and stores nothing
write_csv_to_s3(at, s3_key, header, rows, Continue) ==
    /\ pc = at
    /\ \E ok \in BOOLEAN :
        /\ puts' = Append(puts, <<s3_key, ok>>)
        /\ IF ok
           THEN /\ store' = [store EXCEPT ![s3_key] = Some(CsvBody(header, rows))]
                /\ Continue
           ELSE /\ Raise("ClientError")
                /\ UNCHANGED store
    /\ UNCHANGED requests

-----------------------------------------------------------------------------
(* lambda_handler                                                          *)

\* line 191
FetchTopRatedPage ==
    FetchPage("fetch_top_rated", TOP_RATED_PATH, EnUS, None)

\* line 192
FetchUpcomingPage ==
    FetchPage("fetch_upcoming", UPCOMING_PATH, EnUS, None)

\* line 193: fetch_genres()
FetchGenres ==
    /\ pc = "fetch_genres"
    /\ UNCHANGED <<store, puts>>
    /\ IF TokenMissing(TMDB_API_TOKEN)
       THEN /\ Raise(TokenError)
            /\ UNCHANGED requests
       ELSE \E o \in Outcomes(1) :
            /\ requests' = Append(requests, <<GENRES_PATH, EnUS>>)
            /\ IF RequestError(o) # ""
               THEN Raise(RequestError(o))
               ELSE /\ genres' = Get(RespondGenres(upstream[GENRES_PATH]),
                                     "genres", <<>>)
                    /\ pc' = "write_top_rated"
                    /\ UNCHANGED <<TMDB_API_TOKEN, upstream, max_pages, page,
                                   all_results, top_rated_movies,
                                   upcoming_movies, store0, error, response>>

Proceed(to) ==
    /\ pc' = to
    /\ UNCHANGED <<TMDB_API_TOKEN, upstream, max_pages, page, all_results,
                   top_rated_movies, upcoming_movies, genres, store0, error,
                   response>>

\* faulty variant: upcoming_count copied from the top-rated rows
Summary_UpcomingCountCopied ==
    [statusCode |-> 200,
     body |-> [message |-> "TMDB data fetched and stored in S3 successfully",
               bucket |-> S3_BUCKET,
               keys |-> <<TOP_RATED_KEY, UPCOMING_KEY, GENRES_KEY>>,
               top_rated_count |-> Len(MovieRows(top_rated_movies)),
               upcoming_count |-> Len(MovieRows(top_rated_movies)),
               genres_count |-> Len(GenreRows(genres))]]

\* lines 224-234
Summary ==
    [statusCode |-> 200,
     body |-> [message |-> "TMDB data fetched and stored in S3 successfully",
               bucket |-> S3_BUCKET,
               keys |-> <<TOP_RATED_KEY, UPCOMING_KEY, GENRES_KEY>>,
               top_rated_count |-> Len(MovieRows(top_rated_movies)),
               upcoming_count |-> Len(MovieRows(upcoming_movies)),
               genres_count |-> Len(GenreRows(genres))]]

ReturnSummary ==
    /\ pc' = "returned"
    /\ response' = Some(Summary)
    /\ UNCHANGED <<TMDB_API_TOKEN, upstream, max_pages, page, all_results,
                   top_rated_movies, upcoming_movies, genres, store0, error>>

\* line 218
WriteTopRated ==
    write_csv_to_s3("write_top_rated", TOP_RATED_KEY, movie_header,
                    MovieRows(top_rated_movies), Proceed("write_upcoming"))

\* line 219
WriteUpcoming ==
    write_csv_to_s3("write_upcoming", UPCOMING_KEY, movie_header,
                    MovieRows(upcoming_movies), Proceed("write_genres"))

\* lines 220-234
WriteGenres ==
    write_csv_to_s3("write_genres", GENRES_KEY, genres_header,
                    GenreRows(genres), ReturnSummary)

\* what the bucket may hold when the invocation starts: nothing, or the
\* objects of an earlier run
OldBody == <<genres_header, <<"0", "Old">>>>

Stores == {[k \in Keys |-> None], [k \in Keys |-> Some(OldBody)]}

\* the endpoints of one invocation report one total_pages throughout
HandlerEndpoints ==
    {e \in Endpoints :
        /\ e.first = e.later
        /\ e.first \in {None} \cup {Some(t) : t \in SmallTotals}}

Init ==
    /\ TMDB_API_TOKEN \in Tokens
    /\ \E top \in HandlerEndpoints, up \in HandlerEndpoints, g \in GenreLists :
          upstream = (TOP_RATED_PATH :> top) @@ (UPCOMING_PATH :> up)
                        @@ (GENRES_PATH :> g)
    /\ max_pages = None
    /\ pc = "fetch_top_rated"
    /\ page = 1
    /\ all_results = <<>>
    /\ top_rated_movies = <<>>
    /\ upcoming_movies = <<>>
    /\ genres = <<>>
    /\ store \in Stores
    /\ store0 = store
    /\ requests = <<>>
    /\ puts = <<>>
    /\ error = ""
    /\ response = None

Next ==
    \/ FetchTopRatedPage
    \/ FetchUpcomingPage
    \/ FetchGenres
    \/ WriteTopRated
    \/ WriteUpcoming
    \/ WriteGenres

Spec == Init /\ [][Next]_vars


-----------------------------------------------------------------------------
(* What an invocation of lambda_handler did, read off the two logs.        *)

RequestsTo(path) == SelectSeq(requests, LAMBDA r : r[1] = path)

\* the movie objects the requests made so far to `path` were answered with
FetchedFrom(path) ==
    LET rs == RequestsTo(path)
    IN  Flatten([i \in DOMAIN rs |->
                    Get(Respond(path, upstream[path], rs[i][2].page),
                        "results", <<>>)])

FetchedGenres == Get(RespondGenres(upstream[GENRES_PATH]), "genres", <<>>)

CredentialAbsent == TMDB_API_TOKEN = None \/ TMDB_API_TOKEN = Some("")

\* C6: without the credential the invocation can only fail with the
\* configuration error: no request is sent, nothing is put, the bucket is
\* as it was.
C6_NoCredentialNoRequestNoWrite ==
    CredentialAbsent =>
        /\ requests = <<>>
        /\ puts = <<>>
        /\ store = store0
        /\ response = None
        /\ pc \in {"fetch_top_rated", "failed"}
        /\ pc = "failed" => error = TokenError

C6_Witness ==
    /\ TMDB_API_TOKEN = Some("")
    /\ pc = "failed"
    /\ error = TokenError
    /\ store0[TOP_RATED_KEY] # None

SecondPutFailed == Len(puts) >= 2 /\ ~puts[2][2]

\* C7: when the second put fails, the first object is in the bucket with
\* the rows of this invocation, the other two keys are untouched, no third
\* put is attempted and the invocation has failed without a summary.
C7_SecondPutFailsFirstObjectStays ==
    SecondPutFailed =>
        /\ puts = << <<TOP_RATED_KEY, TRUE>>, <<UPCOMING_KEY, FALSE>> >>
        /\ store[TOP_RATED_KEY] =
              Some(CsvBody(movie_header, MovieRows(FetchedFrom(TOP_RATED_PATH))))
        /\ store[UPCOMING_KEY] = store0[UPCOMING_KEY]
        /\ store[GENRES_KEY] = store0[GENRES_KEY]
        /\ pc = "failed"
        /\ error = "ClientError"
        /\ response = None

C7_Witness ==
    /\ SecondPutFailed
    /\ store0[TOP_RATED_KEY] # None
    /\ store[TOP_RATED_KEY] # store0[TOP_RATED_KEY]
    /\ Len(store[TOP_RATED_KEY][1]) > MaxItems
    /\ pc = "failed"

RowsAt(key) == Len(store[key][1]) - 1

\* C8: a successful invocation made three puts, one per key, each object
\* holds one row per record fetched, and the summary has status 200 and
\* the three row counts.
C8_SuccessWritesThreeAndCounts ==
    pc = "returned" =>
        /\ puts = << <<TOP_RATED_KEY, TRUE>>, <<UPCOMING_KEY, TRUE>>,
                     <<GENRES_KEY, TRUE>> >>
        /\ \A k \in Keys : store[k] # None
        /\ RowsAt(TOP_RATED_KEY) = Len(FetchedFrom(TOP_RATED_PATH))
        /\ RowsAt(UPCOMING_KEY) = Len(FetchedFrom(UPCOMING_PATH))
        /\ RowsAt(GENRES_KEY) = Len(FetchedGenres)
        /\ response # None
        /\ response[1].statusCode = 200
        /\ response[1].body.top_rated_count = RowsAt(TOP_RATED_KEY)
        /\ response[1].body.upcoming_count = RowsAt(UPCOMING_KEY)
        /\ response[1].body.genres_count = RowsAt(GENRES_KEY)

C8_Witness ==
    /\ pc = "returned"
    /\ Len(RequestsTo(TOP_RATED_PATH)) = 2
    /\ Len(RequestsTo(UPCOMING_PATH)) = 1
    /\ response[1].body.top_rated_count = 3
    /\ response[1].body.upcoming_count = 1
    /\ response[1].body.genres_count = 3

UpstreamErrors == {"URLError", "RuntimeError: TMDB API error", "JSONDecodeError"}

SameRequest(r, q) ==
    r[1] = q[1] /\ Get(r[2], "page", 0) = Get(q[2], "page", 0)

C9_State ==
    \* by the first put the three fetches are over: the genre list came last
    /\ puts # <<>> =>
          /\ requests # <<>>
          /\ requests[Len(requests)][1] = GENRES_PATH
          /\ pc \notin {"fetch_top_rated", "fetch_upcoming", "fetch_genres"}
    \* a failed request ends the invocation with nothing put
    /\ error \in UpstreamErrors =>
          /\ pc = "failed"
          /\ puts = <<>>
          /\ store = store0
          /\ response = None
    \* no request is sent twice
    /\ \A i, j \in 1 .. Len(requests) :
          i < j => ~SameRequest(requests[i], requests[j])

C9_Step ==
    /\ puts # <<>> => requests' = requests
    /\ pc = "failed" => (requests' = requests /\ puts' = puts /\ store' = store)

\* C9: all requests come before the first put, and a request that fails
\* ends the invocation there: no further request, no retry, no put, the
\* bucket as it was.
C9_FetchBeforeWriteFailFast == []C9_State /\ [][C9_Step]_vars

C9_Witness ==
    /\ error \in UpstreamErrors
    /\ Len(requests) = 3
    /\ requests[3][1] = GENRES_PATH
    /\ store0[GENRES_KEY] # None

=============================================================================
